---- MODULE Spec2Model ----
(***************************************************************************)
(* lightmcmc.py: single-site Metropolis-Hastings over traces ("worlds") of *)
(* named random choices, with the two example models of the file as the    *)
(* model callbacks.                                                        *)
(*                                                                         *)
(* Python objects are mutable and shared by reference, so Draws and World  *)
(* dicts live in an explicit memory (mem.draws, mem.dicts) addressed by    *)
(* object ids; every operation threads the memory through.  Probabilities  *)
(* (Python floats) are exact rationals <<num, den>> in lowest terms.       *)
(***************************************************************************)
EXTENDS Integers, Sequences, FiniteSets, TLC

\* ------------------------------------------------------------------ bounds
\* mcmc(..., num_steps, num_samples) is run for every num_steps in
\* 0..MaxSteps and num_samples in 0..MaxSamples.
MaxSteps == 2
MaxSamples == 2
\* range(50) of test_transdimensional.model, scaled down.
NumBits == 2
\* sample_geometric is unbounded; the sampler is cut off at MaxTypes.
MaxTypes == 2

\* np.random.uniform(low, high) is continuous on [low, high); sample_uniform
\* is modelled on the grid of the multiples of 1/PGrid, and a value v of a
\* uniform Draw (and the p of a binomial) stands for v/PGrid: the values
\* of uniform(0, 1) are 0.0 and 0.5.
PGrid == 2

\* The default argument tick_created=None of Draw.__init__ (no tick is -2).
None == -2

\* ------------------------------------------------------------------ floats
RECURSIVE GCD(_, _)
GCD(a, b) == IF b = 0 THEN a ELSE GCD(b, a % b)

Rat(n, d) == LET g == GCD(n, d) IN IF n = 0 THEN <<0, 1>> ELSE <<n \div g, d \div g>>

One == <<1, 1>>
Zero == <<0, 1>>
IsZero(x) == x[1] = 0

\* x * y, cancelling across before multiplying
Mul(x, y) ==
    LET a == Rat(x[1], y[2])
        b == Rat(y[1], x[2])
    IN  Rat(a[1] * b[1], a[2] * b[2])

\* x / y for y # 0
Div(x, y) == Mul(x, <<y[2], y[1]>>)

GEq(x, y) == x[1] * y[2] >= y[1] * x[2]

RECURSIVE Pow(_, _)
Pow(x, n) == IF n = 0 THEN One ELSE Mul(x, Pow(x, n - 1))

RECURSIVE Binom(_, _)
Binom(n, k) == IF k = 0 \/ k = n THEN 1 ELSE Binom(n - 1, k - 1) + Binom(n - 1, k)

\* The order in which a dict's items are visited.
RECURSIVE SetToSeq(_)
SetToSeq(S) == IF S = {} THEN <<>> ELSE LET x == CHOOSE y \in S : TRUE IN <<x>> \o SetToSeq(S \ {x})

\* product(seq): functools.reduce(operator.mul, seq, 1)
RECURSIVE product(_)
product(seq) == IF seq = <<>> THEN One ELSE Mul(seq[1], product(Tail(seq)))

\* ----------------------------------------------------------- distributions
\* A Choice is its description and the parameters its sampler and scorer
\* close over.  Samplers take the random number r they consume.
Half == <<1, 2>>

score_geometric(p, n) == IF n < 1 THEN Zero ELSE Mul(Pow(<<p[2] - p[1], p[2]>>, n - 1), p)

score_uniform(low, high, v) == IF v < low \/ v > high THEN Zero ELSE Rat(PGrid, high - low)

score_integer(low, high, v) == IF v < low \/ v >= high THEN Zero ELSE <<1, high - low>>

\* samples_per_bag of test_hierarchical
samples_per_bag == 10

\* binom.pmf(k, n, p), p = ph / PGrid
binom_pmf(k, n, ph) ==
    Mul(<<Binom(n, k), 1>>, Mul(Pow(Rat(ph, PGrid), k), Pow(Rat(PGrid - ph, PGrid), n - k)))

\* binom.pmf(k, samples_per_bag, p) tabulated: the values test_hierarchical
\* asks for
PmfTable ==
    [k \in 0 .. samples_per_bag |->
        [ph \in 0 .. PGrid - 1 |-> binom_pmf(k, samples_per_bag, ph)]]

score_binomial(n, k, ph) ==
    IF k > n THEN Zero
    ELSE IF n = samples_per_bag /\ ph \in 0 .. PGrid - 1 THEN PmfTable[k][ph]
    ELSE binom_pmf(k, n, ph)

FlipChoice(p) == [description |-> "flip", args |-> <<p>>]
GeometricChoice(p) == [description |-> "geometric", args |-> <<p>>]
UniformChoice(low, high) == [description |-> "uniform", args |-> <<low, high>>]
IntegerChoice(low, high) == [description |-> "sample_int", args |-> <<low, high>>]
BinomialFixedChoice(n, ph) == [description |-> "binomial/fixed", args |-> <<n, ph>>]

Scorer(choice, v) ==
    CASE choice.description = "flip" -> IF v # 0 THEN <<1, 3>> ELSE <<2, 3>>
      [] choice.description = "geometric" -> score_geometric(choice.args[1], v)
      [] choice.description = "uniform" -> score_uniform(choice.args[1], choice.args[2], v)
      [] choice.description = "sample_int" -> score_integer(choice.args[1], choice.args[2], v)
      [] choice.description = "binomial/fixed" -> score_binomial(choice.args[1], v, choice.args[2])

\* The random numbers one sampler call may consume.
RandRange == 0 .. (IF MaxTypes > PGrid THEN MaxTypes ELSE PGrid) - 1

Sampler(choice, r) ==
    CASE choice.description = "flip" -> r % 2
      [] choice.description = "geometric" -> 1 + (r % MaxTypes)
      [] choice.description = "uniform" ->
            choice.args[1] + (r % (choice.args[2] - choice.args[1]))
      [] choice.description = "sample_int" ->
            choice.args[1] + (r % (choice.args[2] - choice.args[1]))
      [] choice.description = "binomial/fixed" -> r % (choice.args[1] + 1)

\* ------------------------------------------------------------------- Draw
\* Draw.__init__: self.tick_created = tick_created or tick_touched
Draw(value, choice, tick_touched, tick_created, fixed) ==
    [value |-> value,
     choice |-> choice,
     tick_touched |-> tick_touched,
     tick_created |-> IF tick_created = None \/ tick_created = 0
                      THEN tick_touched ELSE tick_created,
     fixed |-> fixed]

\* Draw.score
DrawScore(draw) == Scorer(draw.choice, draw.value)

\* A copy that loses the fixed flag (C10 tells it from Draw.copy)
DrawCopyUnfixed(draw) ==
    Draw(draw.value, draw.choice, draw.tick_touched, draw.tick_created, FALSE)

\* Draw.copy
DrawCopy(draw) ==
    Draw(draw.value, draw.choice, draw.tick_touched, draw.tick_created, draw.fixed)

\* Draw.resample, on the Draw object id: one outcome for each random number
\* the sampler may consume
DrawResample(mem, id) ==
    {[mem EXCEPT !.draws[id].value = Sampler(mem.draws[id].choice, r)] : r \in RandRange}

\* ----------------------------------------------------------------- memory
\* mem.draws[id] is a Draw object, mem.dicts[w] a World (or plain dict)
\* object mapping names to Draw ids; mem.exc is the exception being
\* raised ("none" while running) and mem.ret the value last returned.
\* mem.log is the record of what the run did (not program state): the
\* names bound (touched) and inserted (created) by the model execution,
\* the calls of set, the proposal before (pre) and after (resampled)
\* draw.resample() with the name of the Draw picked, the world the model
\* returned (executed), how clean ended, the world it left (cleaned) and
\* what it returned.
EmptyDict == [n \in {} |-> 0]

EmptyLog ==
    [touched |-> {}, created |-> {}, sets |-> {},
     pre |-> EmptyDict, picked |-> <<"", 0>>, resampled |-> EmptyDict,
     executed |-> EmptyDict, clean |-> "none", cleaned |-> EmptyDict,
     inc_fw |-> <<0, 1>>, inc_bw |-> <<0, 1>>]

EmptyMem == [draws |-> <<>>, dicts |-> <<>>, exc |-> "none", ret |-> 0, log |-> EmptyLog]

Raise(mem, e) == [mem EXCEPT !.exc = e]
Return(mem, v) == [mem EXCEPT !.ret = v]

\* World() / {}: a new empty dict object; returns its id
NewWorld(mem) ==
    [mem EXCEPT !.dicts = Append(@, EmptyDict), !.ret = Len(mem.dicts) + 1]

\* world[name] = draw with a new Draw object
SetItem(mem, w, name, draw) ==
    LET id == Len(mem.draws) + 1
        old == mem.dicts[w]
    IN  [mem EXCEPT !.draws = Append(@, draw),
                    !.dicts[w] = [n \in DOMAIN old \cup {name} |->
                                     IF n = name THEN id ELSE old[n]]]

\* self.pop(name)
Pop(mem, w, name) ==
    LET old == mem.dicts[w]
    IN  [mem EXCEPT !.dicts[w] = [n \in DOMAIN old \ {name} |-> old[n]]]

\* The world object w by value: name -> Draw record
Deref(mem, w) == [n \in DOMAIN mem.dicts[w] |-> mem.draws[mem.dicts[w][n]]]

\* The place of x in the sequence seq
IndexOf(seq, x) == CHOOSE k \in 1 .. Len(seq) : seq[k] = x

\* A new dict object holding new Draw objects, items[n] under each name n;
\* returns its id
NewWorldOf(mem, items) ==
    LET names == SetToSeq(DOMAIN items)
        base == Len(mem.draws)
    IN  [mem EXCEPT !.draws = @ \o [k \in 1 .. Len(names) |-> items[names[k]]],
                    !.dicts = Append(@, [n \in DOMAIN items |-> base + IndexOf(names, n)]),
                    !.ret = Len(mem.dicts) + 1]

\* A world given by value, as a new object of the memory; returns its id
Load(mem, byValue) == NewWorldOf(mem, byValue)

\* ----------------------------------------------------------------- Choice
\* The operations that draw random numbers return the set of their possible
\* outcomes, one memory for each; an operation begun while an exception is
\* being raised does nothing.

\* A sample that draws and inserts a new Draw also where the name exists
\* (C13 tells it from Choice.sample)
ChoiceSampleAlwaysFresh(mem, self, world, name, tick) ==
    {LET value == Sampler(self, r)
         m0 == SetItem(mem, world, name, Draw(value, self, tick, None, FALSE))
     IN  Return(m0, value) : r \in RandRange}

\* Choice.sample(world, name, tick)
ChoiceSample(mem, self, world, name, tick) ==
    IF mem.exc # "none" THEN {mem}
    ELSE IF name \in DOMAIN mem.dicts[world]
    THEN LET id == mem.dicts[world][name]
             m0 == [mem EXCEPT !.draws[id].choice = self,
                               !.draws[id].tick_touched = tick]
             m1 == [m0 EXCEPT !.log.touched = @ \cup {name}]
         IN  IF IsZero(DrawScore(m1.draws[id]))
             THEN {Raise(m1, "ZeroProbabilityException")}
             ELSE {Return(m1, m1.draws[id].value)}
    ELSE {LET value == Sampler(self, r)
              m0 == SetItem(mem, world, name, Draw(value, self, tick, None, FALSE))
              m1 == [m0 EXCEPT !.log.touched = @ \cup {name},
                               !.log.created = @ \cup {name}]
          IN  Return(m1, value) : r \in RandRange}

\* Choice.set(world, name, tick, fixed_val)
ChoiceSet(mem, self, world, name, tick, fixed_val) ==
    IF mem.exc # "none" THEN {mem}
    ELSE IF name \in DOMAIN mem.dicts[world]
    THEN LET id == mem.dicts[world][name]
             m0 == [mem EXCEPT !.draws[id].choice = self,
                               !.draws[id].tick_touched = tick,
                               !.draws[id].value = fixed_val,
                               !.draws[id].fixed = TRUE]
             zero == IsZero(DrawScore(m0.draws[id]))
             m1 == [m0 EXCEPT !.log.touched = @ \cup {name},
                              !.log.sets = @ \cup {[name |-> name, existed |-> TRUE,
                                                    zero |-> zero, raised |-> zero]}]
         IN  IF zero
             THEN {Raise(m1, "ZeroProbabilityException")}
             ELSE {Return(m1, fixed_val)}
    ELSE LET draw == Draw(fixed_val, self, tick, None, TRUE)
             m0 == SetItem(mem, world, name, draw)
             m1 == [m0 EXCEPT !.log.touched = @ \cup {name},
                              !.log.created = @ \cup {name},
                              !.log.sets = @ \cup {[name |-> name, existed |-> FALSE,
                                                    zero |-> IsZero(DrawScore(draw)),
                                                    raised |-> FALSE]}]
         IN  {Return(m1, fixed_val)}

\* ------------------------------------------------------------------ World
\* World.score
WorldScore(mem, w) ==
    LET names == SetToSeq(DOMAIN mem.dicts[w])
    IN  product([k \in 1 .. Len(names) |-> DrawScore(mem.draws[mem.dicts[w][names[k]]])])

\* No copy at all: the World itself (C14 tells it from World.copy)
WorldCopyAlias(mem, self) == Return(mem, self)

\* A shallow copy: a new World holding the same Draw objects (C6 tells it
\* from World.copy)
WorldCopyShallow(mem, self) ==
    [mem EXCEPT !.dicts = Append(@, mem.dicts[self]), !.ret = Len(mem.dicts) + 1]

\* World.copy: a new World holding a copy of every Draw; returns its id
WorldCopy(mem, self) ==
    NewWorldOf(mem, [n \in DOMAIN mem.dicts[self] |-> DrawCopy(mem.draws[mem.dicts[self][n]])])

\* World.clean(tick).  The loop pops from self while iterating self.items():
\* where items() is a list (Python 2) the loop runs over the snapshot; where
\* it is a view of the dict (Python 3) the step after a pop raises
\* RuntimeError, "dictionary changed size during iteration".
\* A loop body of clean that takes every Draw never revisited since its
\* creation for one created this tick (C4 tells it from the code's)
CleanCaseCreatedIfUntouched(draw, tick) ==
    IF draw.tick_created = draw.tick_touched THEN "created"
    ELSE IF draw.tick_touched # tick THEN "stale"
    ELSE "kept"

\* The branch of the loop body a Draw takes: created this tick (it counts
\* for inc_fw), stale (popped, it counts for inc_bw), or kept
CleanCase(draw, tick) ==
    IF draw.tick_created = tick THEN "created"
    ELSE IF draw.tick_touched # tick THEN "stale"
    ELSE "kept"

RECURSIVE CleanLoop(_, _, _, _, _, _, _, _)
CleanLoop(mem, self, tick, items, inc_fw, inc_bw, popped, itemsAreView) ==
    IF itemsAreView /\ popped THEN Raise(mem, "RuntimeError")
    ELSE IF items = <<>> THEN Return(mem, <<inc_fw, inc_bw>>)
    ELSE LET name == items[1]
             draw == mem.draws[mem.dicts[self][name]]
             case == CleanCase(draw, tick)
         IN  IF case = "created"
             THEN CleanLoop(mem, self, tick, Tail(items),
                            Mul(DrawScore(draw), inc_fw), inc_bw, popped, itemsAreView)
             ELSE IF case = "stale"
             THEN CleanLoop(Pop(mem, self, name), self, tick, Tail(items),
                            inc_fw, Mul(DrawScore(draw), inc_bw), TRUE, itemsAreView)
             ELSE CleanLoop(mem, self, tick, Tail(items),
                            inc_fw, inc_bw, popped, itemsAreView)

WorldClean(mem, self, tick, itemsAreView) ==
    CleanLoop(mem, self, tick, SetToSeq(DOMAIN mem.dicts[self]), One, One, FALSE, itemsAreView)

\* ----------------------------------------------------------------- models
\* A model(init_world, tick) returns <<world, value>>.
NameA == <<"a", 0>>
NameC == <<"c", 0>>
NameBit(n) == <<"bit", n>>
NameNumBagTypes == <<"num_bag_types", 0>>
NameBagTypeP(k) == <<"bag_type_p", k>>
NameBagP(bag) == <<"bag_p", bag>>
NameBagK(bag) == <<"bag_k", bag>>

\* church_flip of test_transdimensional
church_flip(mem, world, name, tick, p) ==
    ChoiceSample(mem, FlipChoice(p), world, name, tick)

\* sum([rbit(1 + n) for n in range(NumBits)]), from n on; returns the sum
RECURSIVE SumBits(_, _, _, _, _)
SumBits(mem, world, tick, n, z) ==
    IF mem.exc # "none" THEN {mem}
    ELSE IF n = NumBits THEN {Return(mem, z)}
    ELSE UNION {SumBits(m1, world, tick, n + 1, z + m1.ret) :
                   m1 \in church_flip(mem, world, NameBit(1 + n), tick, Half)}

\* model of test_transdimensional
ModelTransdimensional(mem, init_world, tick) ==
    LET m0 == WorldCopy(mem, init_world)
        world == m0.ret
        FromC(mB, A) ==
            IF mB.exc # "none" THEN {mB}
            ELSE LET B == mB.ret
                     w == IF B # 0 THEN <<1, 3>> ELSE <<2, 3>>
                 IN  {IF mC.exc # "none" THEN mC
                      ELSE Return(mC, <<world, [A |-> A, B |-> B, C |-> mC.ret]>>) :
                         mC \in church_flip(mB, world, NameC, tick, w)}
        FromB(mA) ==
            IF mA.exc # "none" THEN {mA}
            ELSE LET A == mA.ret
                     mBs == IF A # 0
                            THEN church_flip(mA, world, NameBit(1), tick, Half)
                            ELSE {IF mz.exc # "none" THEN mz
                                  ELSE Return(mz, IF mz.ret % 2 = 1 THEN 1 ELSE 0) :
                                     mz \in SumBits(mA, world, tick, 0, 0)}
                 IN  UNION {FromC(mB, A) : mB \in mBs}
    IN  UNION {FromB(mA) : mA \in church_flip(m0, world, NameA, tick, Half)}

\* observed_samples of test_hierarchical, cut down to its first bag
observed_samples == (0 :> 1)
bags_tested == Cardinality(DOMAIN observed_samples)

\* bag_ps = [church_uniform(world, "bag_type_p_%i" % i, tick, 0, 1) ...],
\* from k on; returns the list
RECURSIVE BagPs(_, _, _, _, _, _)
BagPs(mem, world, tick, num_bag_types, k, bag_ps) ==
    IF mem.exc # "none" THEN {mem}
    ELSE IF k >= num_bag_types THEN {Return(mem, bag_ps)}
    ELSE UNION {BagPs(m1, world, tick, num_bag_types, k + 1, Append(bag_ps, m1.ret)) :
                   m1 \in ChoiceSample(mem, UniformChoice(0, PGrid), world,
                                       NameBagTypeP(k), tick)}

\* the loop over the bags, from bag on; returns bag_samples
RECURSIVE Bags(_, _, _, _, _, _)
Bags(mem, world, tick, bag_ps, bag, bag_samples) ==
    IF mem.exc # "none" THEN {mem}
    ELSE IF bag = bags_tested THEN {Return(mem, bag_samples)}
    ELSE LET \* church_listdraw, then church_binomial_fixed
             Fixed(mi) ==
                 IF mi.exc # "none" THEN {mi}
                 ELSE ChoiceSet(mi, BinomialFixedChoice(samples_per_bag, bag_ps[mi.ret + 1]),
                                world, NameBagK(bag), tick, observed_samples[bag])
             mks == UNION {Fixed(mi) :
                              mi \in ChoiceSample(mem, IntegerChoice(0, Len(bag_ps)), world,
                                                  NameBagP(bag), tick)}
         IN  UNION {Bags(mk, world, tick, bag_ps, bag + 1,
                         [b \in DOMAIN bag_samples \cup {bag} |->
                             IF b = bag THEN mk.ret ELSE bag_samples[b]]) :
                       mk \in mks}

\* model of test_hierarchical
ModelHierarchical(mem, init_world, tick) ==
    LET m0 == WorldCopy(mem, init_world)
        world == m0.ret
        FromBags(mP, num_bag_types) ==
            IF mP.exc # "none" THEN {mP}
            ELSE {IF mS.exc # "none" THEN mS
                  ELSE Return(mS, <<world, [num_bag_types |-> num_bag_types,
                                            bag_samples |-> mS.ret]>>) :
                     mS \in Bags(mP, world, tick, mP.ret, 0, EmptyDict)}
        FromPs(mN) ==
            IF mN.exc # "none" THEN {mN}
            ELSE UNION {FromBags(mP, mN.ret) : mP \in BagPs(mN, world, tick, mN.ret, 0, <<>>)}
    IN  UNION {FromPs(mN) :
                  mN \in ChoiceSample(m0, GeometricChoice(<<2, 5>>), world,
                                      NameNumBagTypes, tick)}

\* The callbacks passed to mcmc, by the name of the test.
Model(t, mem, init_world, tick) ==
    LET m0 == [mem EXCEPT !.log.touched = {}, !.log.created = {}, !.log.sets = {}]
    IN  IF t = "transdimensional"
        THEN ModelTransdimensional(m0, init_world, tick)
        ELSE ModelHierarchical(m0, init_world, tick)

condition(t, val) ==
    IF t = "transdimensional" THEN val.C # 0
    ELSE val.bag_samples = observed_samples

query(t, val) ==
    IF t = "transdimensional" THEN val.A ELSE val.num_bag_types

\* The names of the non-fixed Draws of world w: [d for d in w.values() if not d.fixed]
Proposable(mem, w) ==
    SelectSeq(SetToSeq(DOMAIN mem.dicts[w]), LAMBDA n : ~mem.draws[mem.dicts[w][n]].fixed)

\* A bw that leaves out the factor inc_bw (C2 tells it from the code's)
BackwardProbabilityWithoutInc(n_post, draw_score_pre, inc_bw) ==
    Mul(<<1, n_post>>, draw_score_pre)

\* bw = (1 / len(proposable_draws_post)) * draw_score_pre * inc_bw
BackwardProbability(n_post, draw_score_pre, inc_bw) ==
    Mul(Mul(<<1, n_post>>, draw_score_pre), inc_bw)

\* fw = (1 / len(proposable_draws_pre)) * draw_score_post * inc_fw
ForwardProbability(n_pre, draw_score_post, inc_fw) ==
    Mul(Mul(<<1, n_pre>>, draw_score_post), inc_fw)

\* World.propose(model, tick); returns <<new_world, new_value, bw, fw>>
WorldPropose(mem, self, model, tick, itemsAreView) ==
    LET m1 == WorldCopy(mem, self)
        proposal == m1.ret
        proposable_draws_pre == Proposable(m1, proposal)
        Rest(picked, m2, m3) ==
            LET draw_score_pre == DrawScore(m1.draws[m1.dicts[proposal][picked]])
                draw_score_post == DrawScore(m2.draws[m2.dicts[proposal][picked]])
                new_world == m3.ret[1]
                new_value == m3.ret[2]
                m4 == WorldClean([m3 EXCEPT !.log.executed = Deref(m3, new_world),
                                            !.log.clean = "raised"],
                                 new_world, tick, itemsAreView)
                inc_fw == m4.ret[1]
                inc_bw == m4.ret[2]
                m5 == [m4 EXCEPT !.log.clean = "returned",
                                 !.log.cleaned = Deref(m4, new_world),
                                 !.log.inc_fw = inc_fw, !.log.inc_bw = inc_bw]
                proposable_draws_post == Proposable(m5, new_world)
                bw == BackwardProbability(Len(proposable_draws_post), draw_score_pre, inc_bw)
                fw == ForwardProbability(Len(proposable_draws_pre), draw_score_post, inc_fw)
            IN  IF m3.exc # "none" THEN m3
                ELSE IF m4.exc # "none" THEN m4
                ELSE IF Len(proposable_draws_post) = 0 THEN Raise(m5, "ZeroDivisionError")
                ELSE Return(m5, <<new_world, new_value, bw, fw>>)
        Resampled(picked, m2) ==
            LET m2l == [m2 EXCEPT !.log.pre = Deref(m1, proposal),
                                  !.log.picked = picked,
                                  !.log.resampled = Deref(m2, proposal)]
            IN  {Rest(picked, m2, m3) : m3 \in Model(model, m2l, proposal, tick)}
        Picked(picked) ==
            UNION {Resampled(picked, m2) :
                      m2 \in DrawResample(m1, m1.dicts[proposal][picked])}
    IN  IF Len(proposable_draws_pre) = 0 THEN {Raise(m1, "IndexError")}
        ELSE UNION {Picked(proposable_draws_pre[k]) : k \in 1 .. Len(proposable_draws_pre)}

\* ------------------------------------------------------------------- mcmc
\* test: which example's callbacks mcmc is called with; itemsIsView: whether
\* dict.items() is a view (Python 3) or a list (Python 2); world, value: the
\* retained state; i, j: the loop counters; ticks: the tick of every
\* propose call so far; raised: the exception that left mcmc.
VARIABLES test, itemsIsView, num_steps, num_samples, pc, world, value, i, j,
          samples, ticks, raised

vars == <<test, itemsIsView, num_steps, num_samples, pc, world, value, i, j,
          samples, ticks, raised>>

\* flip(weight): np.random.uniform(0, 1) <= weight, u the uniform number:
\* "min" is 0.0, "max" the largest float below 1
flip(weight, u) == IF u = "min" THEN GEq(weight, Zero) ELSE GEq(weight, One)

\* Whether the product World.score() of w is a numpy float: binom.pmf
\* returns one, the other scorers return Python floats.
IsNumpyScore(w) ==
    \E n \in DOMAIN w : /\ w[n].choice.description = "binomial/fixed"
                        /\ w[n].value <= w[n].choice.args[1]

Init ==
    /\ test \in {"transdimensional", "hierarchical"}
    /\ itemsIsView \in BOOLEAN
    /\ num_steps \in 0 .. MaxSteps
    /\ num_samples \in 0 .. MaxSamples
    /\ pc = "initialize"
    /\ world = EmptyDict
    /\ value = EmptyDict
    /\ i = 0
    /\ j = 0
    /\ samples = <<>>
    /\ ticks = <<>>
    /\ raised = "none"

\* model(World(), -1) of initialize: every outcome of the execution
Executions == LET m0 == NewWorld(EmptyMem) IN Model(test, m0, m0.ret, -1)

\* initialize(model, condition): one round of its loop
Initialize ==
    /\ pc = "initialize"
    /\ \E m1 \in Executions :
          IF m1.exc # "none"
          THEN /\ pc' = "raised"
               /\ raised' = m1.exc
               /\ UNCHANGED <<world, value>>
          ELSE IF condition(test, m1.ret[2])
          THEN /\ pc' = "loop"
               /\ world' = Deref(m1, m1.ret[1])
               /\ value' = m1.ret[2]
               /\ UNCHANGED raised
          ELSE UNCHANGED <<pc, world, value, raised>>
    /\ UNCHANGED <<test, itemsIsView, num_steps, num_samples, i, j, samples, ticks>>

\* The memory in which the retained world is the object Retained.ret
Retained == Load(EmptyMem, world)

\* The tick mcmc passes to propose
Tick == i * j

\* world.propose(model, i * j) of mcmc: every outcome of the call
Proposals == WorldPropose(Retained, Retained.ret, test, Tick, itemsIsView)

\* An except clause that catches nothing (C7 tells it from the code's)
CaughtNothing(exc) == FALSE

\* except ZeroProbabilityException
Caught(exc) == exc = "ZeroProbabilityException"

\* A test that accepts on the ratio of the scores alone, leaving out bw / fw
\* (C12 tells it from the code's)
DecideWithoutProposalRatio(new_score, old_score, bw, fw, numpy, u) ==
    LET p == Div(new_score, old_score)
    IN  IF GEq(p, One) \/ flip(p, u) THEN "accept" ELSE "reject"

\* p = (proposal.score() / world.score()) * (bw / fw), as how the test
\* "p >= 1 or flip(p)" comes out for the uniform number u, or the exception
\* the division raises.  A numpy division by 0.0 gives inf (nan for 0.0/0.0).
Decide(new_score, old_score, bw, fw, numpy, u) ==
    IF IsZero(old_score) /\ ~numpy THEN "ZeroDivisionError"
    ELSE IF IsZero(fw) THEN "ZeroDivisionError"
    ELSE IF IsZero(old_score)
    THEN IF IsZero(new_score) \/ IsZero(bw) THEN "reject" ELSE "accept"
    ELSE LET p == Mul(Div(new_score, old_score), Div(bw, fw))
         IN  IF GEq(p, One) \/ flip(p, u) THEN "accept" ELSE "reject"

\* The body of "else:" without the test of condition (C9 tells it from the
\* code's)
VerdictWithoutCondition(m1, u) ==
    LET self == Retained.ret
        proposal == m1.ret[1]
    IN  Decide(WorldScore(m1, proposal), WorldScore(m1, self), m1.ret[3], m1.ret[4],
               IsNumpyScore(Deref(m1, self)) \/ IsNumpyScore(Deref(m1, proposal)), u)

\* The body of "else:" in mcmc, for the outcome m1 of propose
Verdict(m1, u) ==
    LET self == Retained.ret
        proposal == m1.ret[1]
    IN  IF ~condition(test, m1.ret[2]) THEN "reject"
        ELSE Decide(WorldScore(m1, proposal), WorldScore(m1, self), m1.ret[3], m1.ret[4],
                    IsNumpyScore(Deref(m1, self)) \/ IsNumpyScore(Deref(m1, proposal)), u)

\* One pass of the inner loop of mcmc: a Metropolis-Hastings transition
Transition ==
    /\ pc = "loop"
    /\ i < num_samples
    /\ j < num_steps
    /\ ticks' = Append(ticks, Tick)
    /\ j' = j + 1
    /\ \E m1 \in Proposals :
          LET self == Retained.ret
              Reject == /\ world' = Deref(m1, self)
                        /\ UNCHANGED <<value, pc, raised>>
              Accept == /\ world' = Deref(m1, m1.ret[1])
                        /\ value' = m1.ret[2]
                        /\ UNCHANGED <<pc, raised>>
              Escape(e) == /\ raised' = e
                           /\ pc' = "raised"
                           /\ world' = Deref(m1, self)
                           /\ UNCHANGED value
          IN  IF m1.exc # "none"
              THEN IF Caught(m1.exc) THEN Reject ELSE Escape(m1.exc)
              ELSE \E u \in {"min", "max"} :
                      LET v == Verdict(m1, u)
                      IN  IF v = "accept" THEN Accept
                          ELSE IF v = "reject" THEN Reject
                          ELSE Escape(v)
    /\ UNCHANGED <<test, itemsIsView, num_steps, num_samples, i, samples>>

\* samples.append(query(value)) at the end of a round
AppendSample ==
    /\ pc = "loop"
    /\ i < num_samples
    /\ j = num_steps
    /\ samples' = Append(samples, query(test, value))
    /\ i' = i + 1
    /\ j' = 0
    /\ UNCHANGED <<test, itemsIsView, num_steps, num_samples, pc, world, value, ticks,
                   raised>>

\* return samples
ReturnSamples ==
    /\ pc = "loop"
    /\ i = num_samples
    /\ pc' = "returned"
    /\ UNCHANGED <<test, itemsIsView, num_steps, num_samples, world, value, i, j, samples,
                   ticks, raised>>

Next == Initialize \/ Transition \/ AppendSample \/ ReturnSamples

Spec == Init /\ [][Next]_vars

\* mcmc called with the callbacks of test_transdimensional
InitTransdimensional == Init /\ test = "transdimensional"
SpecTransdimensional == InitTransdimensional /\ [][Next]_vars

\* mcmc called with the callbacks of test_hierarchical
InitHierarchical == Init /\ test = "hierarchical"
SpecHierarchical == InitHierarchical /\ [][Next]_vars

\* -------------------------------------------------------------- rejection
\* rejection(model, condition, query, num_samples) with mapp = map.  The
\* batches are of range(100) in the source, scaled down to BatchSize; the
\* calls are run for every num_samples in 0..MaxRejectionSamples.  Here i
\* counts the batches done, j the single_rejection calls of the running
\* batch that have returned, value is the value of the latest model
\* execution, and the results of a batch join samples one by one.
BatchSize == 2
MaxRejectionSamples == 5

\* int(num_samples / 100)
Batches(n) == n \div BatchSize

\* A remainder that is dropped (C20 tells it from the code's)
RemainderDropped(n) == 0

\* num_samples % 100
Remainder(n) == n % BatchSize

\* The range the running mapp call maps over: range(100) within the first
\* loop, range(num_samples % 100) after it
CurrentRange == IF i < Batches(num_samples) THEN BatchSize ELSE Remainder(num_samples)

\* A loop that never runs: the first value is returned (C15 tells it from
\* the code's)
WhileNever(val) == FALSE

\* while not condition(value)
WhileNotCondition(val) == ~condition(test, val)

InitRejection ==
    /\ test \in {"transdimensional", "hierarchical"}
    /\ itemsIsView \in BOOLEAN
    /\ num_steps = 0
    /\ num_samples \in 0 .. MaxRejectionSamples
    /\ pc = "rejection"
    /\ world = EmptyDict
    /\ value = EmptyDict
    /\ i = 0
    /\ j = 0
    /\ samples = <<>>
    /\ ticks = <<>>
    /\ raised = "none"

\* model({}, -1) of single_rejection: every value it may return
Attempts ==
    LET m0 == NewWorld(EmptyMem)
    IN  {m1.ret[2] : m1 \in {m \in Model(test, m0, m0.ret, -1) : m.exc = "none"}}

\* single_rejection is called for the next element of the range:
\* _, value = model({}, -1)
SingleRejectionCall ==
    /\ pc = "rejection"
    /\ j < CurrentRange
    /\ \E v \in Attempts : value' = v
    /\ pc' = "single_rejection"
    /\ UNCHANGED <<test, itemsIsView, num_steps, num_samples, world, i, j, samples, ticks,
                   raised>>

\* the body of the while loop: _, value = model({}, -1)
SingleRejectionRetry ==
    /\ pc = "single_rejection"
    /\ WhileNotCondition(value)
    /\ \E v \in Attempts : value' = v
    /\ UNCHANGED <<test, itemsIsView, num_steps, num_samples, pc, world, i, j, samples,
                   ticks, raised>>

\* return query(value)
SingleRejectionReturn ==
    /\ pc = "single_rejection"
    /\ ~WhileNotCondition(value)
    /\ samples' = Append(samples, query(test, value))
    /\ j' = j + 1
    /\ pc' = "rejection"
    /\ UNCHANGED <<test, itemsIsView, num_steps, num_samples, world, value, i, ticks,
                   raised>>

\* for _ in range(int(num_samples / 100)): the mapp call of a batch is done
NextBatch ==
    /\ pc = "rejection"
    /\ i < Batches(num_samples)
    /\ j = BatchSize
    /\ i' = i + 1
    /\ j' = 0
    /\ UNCHANGED <<test, itemsIsView, num_steps, num_samples, pc, world, value, samples,
                   ticks, raised>>

\* return samples, the remainder being 0 or its mapp call done
RejectionReturn ==
    /\ pc = "rejection"
    /\ i = Batches(num_samples)
    /\ j = Remainder(num_samples)
    /\ pc' = "returned"
    /\ UNCHANGED <<test, itemsIsView, num_steps, num_samples, world, value, i, j, samples,
                   ticks, raised>>

NextRejection ==
    \/ SingleRejectionCall
    \/ SingleRejectionRetry
    \/ SingleRejectionReturn
    \/ NextBatch
    \/ RejectionReturn

SpecRejection == InitRejection /\ [][NextRejection]_vars

\* ---------------------------------------------------------------- claims
\* mcmc is about to call world.propose
Proposing == pc = "loop" /\ i < num_samples /\ j < num_steps

\* The outcomes of the propose call mcmc is about to make
Outcomes == IF Proposing THEN Proposals ELSE {}

\* The model executions about to happen: that of initialize, or those of
\* the propose call
Runs == IF pc = "initialize" THEN Executions ELSE Outcomes

\* The tick of these executions, the names their world held beforehand,
\* whether the model returned in m and the world it returned
RunTick == IF pc = "initialize" THEN -1 ELSE Tick
ExistingBefore(m) == IF pc = "initialize" THEN {} ELSE DOMAIN m.log.resampled
ModelReturned(m) == IF pc = "initialize" THEN m.exc = "none" ELSE m.log.clean # "none"
ExecutedWorld(m) == IF pc = "initialize" THEN Deref(m, m.ret[1]) ELSE m.log.executed

\* The product of the scores of the Draws of world w (by value) under the
\* names S; 1 for the empty set
RECURSIVE ProductOver(_, _)
ProductOver(S, w) ==
    IF S = {} THEN One
    ELSE LET x == CHOOSE y \in S : TRUE
         IN  Mul(Scorer(w[x].choice, w[x].value), ProductOver(S \ {x}, w))

\* The names of the non-fixed Draws of a world given by value
NonFixed(w) == {n \in DOMAIN w : ~w[n].fixed}

\* C1 (as claimed): no two propose calls of one mcmc run receive the same
\* tick.  The code passes i * j, which is 0 for the whole first round and
\* for the first step of every round.
C1_TicksUnique ==
    \A a, b \in 1 .. Len(ticks) : a # b => ticks[a] # ticks[b]

\* C2 (as the code has it): propose returns
\*   bw = (1/|proposable_post|) * scorePre * incBw and
\*   fw = (1/|proposable_pre|) * scorePost * incFw,
\* proposable_pre the non-fixed Draws of the copy before resampling,
\* proposable_post those of the new world after clean, scorePre/scorePost the
\* scores of the selected Draw before/after resampling, (incFw, incBw) the
\* result of clean.
C2_Returned(m) == m.exc = "none" /\ m.log.clean = "returned"
C2_ScorePre(m) == DrawScore(m.log.pre[m.log.picked])
C2_ScorePost(m) == DrawScore(m.log.resampled[m.log.picked])
C2_NumPre(m) == Cardinality(NonFixed(m.log.pre))
C2_NumPost(m) == Cardinality(NonFixed(m.log.cleaned))

C2_ProposalProbabilities ==
    \A m \in Outcomes :
        C2_Returned(m) =>
            /\ m.ret[3] = Mul(Mul(Rat(1, C2_NumPost(m)), C2_ScorePre(m)), m.log.inc_bw)
            /\ m.ret[4] = Mul(Mul(Rat(1, C2_NumPre(m)), C2_ScorePost(m)), m.log.inc_fw)

\* C2 (as claimed): bw = (1/|proposable_pre|) * scorePre * incBw and
\* fw = (1/|proposable_post|) * scorePost * incFw
C2_AsClaimed ==
    \A m \in Outcomes :
        C2_Returned(m) =>
            /\ m.ret[3] = Mul(Mul(Rat(1, C2_NumPre(m)), C2_ScorePre(m)), m.log.inc_bw)
            /\ m.ret[4] = Mul(Mul(Rat(1, C2_NumPost(m)), C2_ScorePost(m)), m.log.inc_fw)

\* A propose call returns for which the number of non-fixed Draws changes,
\* clean has removed a Draw of score below 1 and neither probability is 0
C2_Witness ==
    \E m \in Outcomes :
        /\ C2_Returned(m)
        /\ C2_NumPre(m) # C2_NumPost(m)
        /\ ~IsZero(m.ret[3])
        /\ ~IsZero(m.ret[4])
        /\ m.log.inc_bw # One

\* C3 (as claimed): clean(tick) completes normally, also when an entry has
\* to be removed, and leaves exactly the entries with tickTouched = tick or
\* tickCreated = tick, each unchanged.
C3_Kept(w, tick) == {n \in DOMAIN w : w[n].tick_touched = tick \/ w[n].tick_created = tick}

C3_CleanRemovesStale ==
    \A m \in Outcomes :
        m.log.clean # "none" =>
            /\ m.log.clean = "returned"
            /\ m.log.cleaned = [n \in C3_Kept(m.log.executed, Tick) |-> m.log.executed[n]]

\* C4: clean(tick) returns (incFw, incBw), incFw the product of the scores
\* of the Draws with tickCreated = tick and incBw the product of the scores
\* of the Draws the call removed, each 1 for the empty set.
C4_Created(m) == {n \in DOMAIN m.log.executed : m.log.executed[n].tick_created = Tick}
C4_Removed(m) == DOMAIN m.log.executed \ DOMAIN m.log.cleaned

C4_CleanProducts ==
    \A m \in Outcomes :
        m.log.clean = "returned" =>
            /\ m.log.inc_fw = ProductOver(C4_Created(m), m.log.executed)
            /\ m.log.inc_bw = ProductOver(C4_Removed(m), m.log.executed)

\* A clean call returns having removed a Draw of score below 1 and met no
\* Draw created this tick
C4_Witness ==
    \E m \in Outcomes :
        /\ m.log.clean = "returned"
        /\ C4_Removed(m) # {}
        /\ m.log.inc_bw # One
        /\ C4_Created(m) = {}
        /\ m.log.inc_fw = One

\* C5 (as claimed): in a model execution at tick T every name touched has
\* tickTouched = T, and a name is created in the execution iff its Draw has
\* tickCreated = tickTouched = T; a Draw that existed before the execution
\* never has tickCreated = T.
C5_TickStamps ==
    \A m \in Runs :
        ModelReturned(m) =>
            LET w == ExecutedWorld(m)
            IN  /\ \A n \in m.log.touched : w[n].tick_touched = RunTick
                /\ \A n \in DOMAIN w :
                      n \in m.log.created <=>
                          w[n].tick_created = RunTick /\ w[n].tick_touched = RunTick
                /\ \A n \in ExistingBefore(m) \cap DOMAIN w : w[n].tick_created # RunTick

\* initialize has returned: mcmc holds a retained (world, value)
Initialized == pc = "loop" \/ pc = "returned" \/ (pc = "raised" /\ ticks # <<>>)

\* C6: a transition that is rejected (ZeroProbability raised, condition
\* false, or the acceptance flip fails) leaves the retained world with the
\* same names and the same Draw fields under every name: propose and the
\* model re-execution mutate only copies; and the retained (world, value)
\* changes only by an accepted proposal taking its place.
C6_Rejected(m, u) ==
    \/ m.exc = "ZeroProbabilityException"
    \/ m.exc = "none" /\ ~condition(test, m.ret[2])
    \/ m.exc = "none" /\ Verdict(m, u) = "reject"

C6_Accepted(m, u) == m.exc = "none" /\ Verdict(m, u) = "accept"

C6_RetainedUntouched ==
    \A m \in Outcomes :
        (\E u \in {"min", "max"} : C6_Rejected(m, u)) => Deref(m, Retained.ret) = world

C6_ChangeIsAccept ==
    (Initialized /\ (world' # world \/ value' # value)) =>
        \E m \in Outcomes :
            /\ \E u \in {"min", "max"} : C6_Accepted(m, u)
            /\ world' = Deref(m, m.ret[1])
            /\ value' = m.ret[2]

C6_RetainedChangesOnlyOnAccept ==
    [](C6_RetainedUntouched) /\ [][C6_ChangeIsAccept]_vars

\* A propose call has resampled a Draw to another value, and among its
\* outcomes one fails condition and one fails the acceptance flip
C6_Witness ==
    /\ \E m \in Outcomes :
          /\ m.exc = "none"
          /\ ~condition(test, m.ret[2])
          /\ m.log.resampled # m.log.pre
    /\ \E m \in Outcomes :
          /\ m.exc = "none"
          /\ condition(test, m.ret[2])
          /\ Verdict(m, "max") = "reject"
          /\ m.log.resampled # m.log.pre

\* C7: ZeroProbability raised while a proposal is evaluated never leaves
\* mcmc: the exception mcmc ends with after a propose call is another one;
\* and the propose call that raises it leaves the retained world as it was,
\* so that mcmc goes on from the prior (world, value).
C7_ZeroProbabilityCaught ==
    /\ (pc = "raised" /\ ticks # <<>>) => raised # "ZeroProbabilityException"
    /\ \A m \in Outcomes :
          m.exc = "ZeroProbabilityException" => Deref(m, Retained.ret) = world

\* A propose call with a transition to follow raises ZeroProbability from
\* Choice.set in one outcome and from Choice.sample in another
C7_Witness ==
    /\ j + 1 < num_steps
    /\ \E m \in Outcomes :
          /\ m.exc = "ZeroProbabilityException"
          /\ \E s \in m.log.sets : s.raised
    /\ \E m \in Outcomes :
          /\ m.exc = "ZeroProbabilityException"
          /\ \A s \in m.log.sets : ~s.raised

\* C8 (as claimed): Choice.set raises ZeroProbability whenever fixedVal
\* scores 0 under the choice, whether the name exists in the world or not.
C8_SetRaisesOnZeroScore ==
    \A m \in Runs : \A s \in m.log.sets : s.zero => s.raised

\* C9: after initialize returns the retained value satisfies condition, and
\* a proposal whose new value fails condition is rejected whatever the
\* Metropolis-Hastings ratio; so every sample is query of such a value.
C9_RetainedSatisfiesCondition ==
    /\ Initialized => condition(test, value)
    /\ \A m \in Outcomes :
          (m.exc = "none" /\ ~condition(test, m.ret[2])) =>
              \A u \in {"min", "max"} : Verdict(m, u) = "reject"

\* After a sample has been taken, a proposal fails condition though its
\* Metropolis-Hastings ratio would have it accepted
C9_Witness ==
    /\ samples # <<>>
    /\ \E m \in Outcomes :
          /\ m.exc = "none"
          /\ ~condition(test, m.ret[2])
          /\ VerdictWithoutCondition(m, "max") = "accept"

\* C10: the Draw propose selects is non-fixed, resampling changes the value
\* of that Draw and nothing else of the proposal, and the retained world
\* holds every observed bag_k Draw with fixed = true and the value given to
\* Choice.set, and no other fixed Draw.
C10_Selected(m) == m.log.picked \in DOMAIN m.log.pre

C10_FixedNeverResampled ==
    /\ \A m \in Outcomes :
          C10_Selected(m) =>
              LET n == m.log.picked
              IN  /\ n \in DOMAIN world
                  /\ ~world[n].fixed
                  /\ ~m.log.pre[n].fixed
                  /\ DOMAIN m.log.resampled = DOMAIN m.log.pre
                  /\ \A o \in DOMAIN m.log.pre \ {n} : m.log.resampled[o] = m.log.pre[o]
                  /\ m.log.resampled[n] =
                         [m.log.pre[n] EXCEPT !.value = m.log.resampled[n].value]
    /\ Initialized =>
          /\ \A bag \in DOMAIN observed_samples :
                /\ NameBagK(bag) \in DOMAIN world
                /\ world[NameBagK(bag)].fixed
                /\ world[NameBagK(bag)].value = observed_samples[bag]
          /\ \A n \in DOMAIN world : world[n].fixed => n[1] = "bag_k"

\* After an accepted transition has revisited and copied the fixed Draw, a
\* propose call resamples a Draw to another value and returns
C10_Witness ==
    /\ \E n \in DOMAIN world : world[n].fixed /\ world[n].tick_touched # -1
    /\ \E m \in Outcomes :
          /\ m.exc = "none"
          /\ C10_Selected(m)
          /\ m.log.resampled # m.log.pre

\* C11 (as claimed): mcmc, once initialize has returned, does not end but by
\* returning, and it returns after num_samples rounds of num_steps propose
\* calls each with num_samples outputs.
C11_ReturnsAllSamples ==
    /\ pc # "raised"
    /\ pc = "returned" =>
          /\ Len(samples) = num_samples
          /\ Len(ticks) = num_samples * num_steps

\* C12: where propose returns and condition(newValue) holds, with
\* p = (score(new)/score(old)) * (bw/fw), the proposal is accepted whatever
\* the flip draws if p >= 1, and otherwise exactly when the flip with weight
\* p succeeds (the uniform number drawn is at most p).
C12_Decided(m) ==
    /\ m.exc = "none"
    /\ condition(test, m.ret[2])
    /\ ~IsZero(ProductOver(DOMAIN world, world))
    /\ ~IsZero(m.ret[4])

C12_P(m) ==
    LET new == Deref(m, m.ret[1])
    IN  Mul(Div(ProductOver(DOMAIN new, new), ProductOver(DOMAIN world, world)),
            Div(m.ret[3], m.ret[4]))

C12_AcceptanceRule ==
    \A m \in Outcomes :
        C12_Decided(m) =>
            IF GEq(C12_P(m), One)
            THEN \A u \in {"min", "max"} : Verdict(m, u) = "accept"
            ELSE /\ Verdict(m, "min") = "accept"
                 /\ Verdict(m, "max") = "reject"

\* A propose call has an outcome with p >= 1 and one with 0 < p < 1 for
\* which the ratio of the scores alone is at least 1
C12_Witness ==
    /\ \E m \in Outcomes : C12_Decided(m) /\ GEq(C12_P(m), One)
    /\ \E m \in Outcomes :
          /\ C12_Decided(m)
          /\ ~GEq(C12_P(m), One)
          /\ ~IsZero(C12_P(m))
          /\ GEq(Mul(C12_P(m), Div(m.ret[4], m.ret[3])), One)

\* C13: Choice.sample(world, name, tick) on an existing name sets the Draw's
\* choice and tickTouched, leaves its value, tickCreated and fixed and every
\* other entry as they were, raises ZeroProbability if the value scores 0
\* under the new choice and returns the value otherwise; on an absent name
\* it adds one new Draw object, non-fixed, with tickCreated = tickTouched =
\* tick and a value of the sampler, returns that value, and leaves every
\* other entry as it was.  Checked of the call on the world retained at the
\* start of every round, for every choice of the two examples, names present
\* and absent, and the ticks -1, 0 and 1.
C13_Choices ==
    {FlipChoice(Half), FlipChoice(<<1, 3>>), GeometricChoice(<<2, 5>>),
     UniformChoice(0, PGrid), IntegerChoice(0, 1), IntegerChoice(0, MaxTypes)}

C13_Names == DOMAIN world \cup {NameC, NameBagTypeP(MaxTypes)}

C13_Ticks == {-1, 0, 1}

RoundStart == pc = "loop" /\ j = 0

C13_Revisit(before, m, c, n, t) ==
    /\ Deref(m, before.ret) = [world EXCEPT ![n].choice = c, ![n].tick_touched = t]
    /\ Len(m.draws) = Len(before.draws)
    /\ IF IsZero(Scorer(c, world[n].value))
       THEN m.exc = "ZeroProbabilityException"
       ELSE m.exc = "none" /\ m.ret = world[n].value

C13_Insert(before, m, c, n, t) ==
    LET after == Deref(m, before.ret)
    IN  /\ m.exc = "none"
        /\ DOMAIN after = DOMAIN world \cup {n}
        /\ \A o \in DOMAIN world : after[o] = world[o]
        /\ Len(m.draws) = Len(before.draws) + 1
        /\ after[n] = [value |-> m.ret, choice |-> c, tick_touched |-> t,
                       tick_created |-> t, fixed |-> FALSE]
        /\ \E r \in RandRange : m.ret = Sampler(c, r)

C13_SampleContract ==
    RoundStart =>
        LET before == Retained
        IN  \A c \in C13_Choices, n \in C13_Names, t \in C13_Ticks :
                LET outs == ChoiceSample(before, c, before.ret, n, t)
                IN  /\ outs # {}
                    /\ \A m \in outs :
                          IF n \in DOMAIN world THEN C13_Revisit(before, m, c, n, t)
                          ELSE C13_Insert(before, m, c, n, t)

\* A world retained at the start of a round, after an accepted transition,
\* with a fixed Draw, on which sample raises for one existing name and
\* choice, returns for another, and inserts under an absent name
C13_Witness ==
    /\ RoundStart
    /\ \E n \in DOMAIN world : world[n].fixed /\ world[n].tick_touched # -1
    /\ \E c \in C13_Choices, n \in DOMAIN world :
          \E m \in ChoiceSample(Retained, c, Retained.ret, n, 1) :
              m.exc = "ZeroProbabilityException"
    /\ \E c \in C13_Choices, n \in DOMAIN world :
          \E m \in ChoiceSample(Retained, c, Retained.ret, n, 1) :
              m.exc = "none" /\ world[n].choice # c /\ world[n].tick_created # 1
    /\ \E c \in C13_Choices, n \in C13_Names \ DOMAIN world :
          \E m \in ChoiceSample(Retained, c, Retained.ret, n, 1) :
              m.exc = "none"

\* C14: after c = w.copy(), c is another dict holding other Draw objects
\* with the choices of w's, and no mutation of c changes w: setting a Draw's
\* value (resample), its choice and tickTouched (Choice.sample), its value
\* and fixed flag (Choice.set), removing an entry or adding one.  Checked
\* with w the world retained at the start of every round.
C14_Ids(mem, w) == {mem.dicts[w][n] : n \in DOMAIN mem.dicts[w]}

C14_Mutations(m1, c) ==
    UNION {DrawResample(m1, m1.dicts[c][n])
           \cup ChoiceSample(m1, IntegerChoice(0, MaxTypes), c, n, 1)
           \cup ChoiceSet(m1, GeometricChoice(<<2, 5>>), c, n, 1, 1)
           \cup {Pop(m1, c, n)} : n \in DOMAIN m1.dicts[c]}
    \cup ChoiceSample(m1, FlipChoice(Half), c, NameBagTypeP(MaxTypes), 1)

C14_CopyIsIndependent ==
    RoundStart =>
        LET before == Retained
            w == before.ret
            m1 == WorldCopy(before, w)
            c == m1.ret
        IN  /\ c # w
            /\ Deref(m1, w) = world
            /\ C14_Ids(m1, c) \cap C14_Ids(m1, w) = {}
            /\ DOMAIN m1.dicts[c] = DOMAIN world
            /\ \A n \in DOMAIN world : m1.draws[m1.dicts[c][n]].choice = world[n].choice
            /\ \A m2 \in C14_Mutations(m1, c) : Deref(m2, w) = world

\* A world with a fixed Draw, retained after an accepted transition, whose
\* copy can be changed by a mutation of each kind
C14_Witness ==
    /\ RoundStart
    /\ \E n \in DOMAIN world : world[n].fixed /\ world[n].tick_touched # -1
    /\ LET m1 == WorldCopy(Retained, Retained.ret)
           c == m1.ret
       IN  \A n \in DOMAIN world :
               /\ \E m2 \in DrawResample(m1, m1.dicts[c][n]) : Deref(m2, c) # world
               /\ \E m2 \in ChoiceSample(m1, IntegerChoice(0, MaxTypes), c, n, 1) :
                     Deref(m2, c) # world
               /\ \E m2 \in ChoiceSet(m1, GeometricChoice(<<2, 5>>), c, n, 1, 1) :
                     Deref(m2, c) # world
               /\ DOMAIN Deref(Pop(m1, c, n), c) # DOMAIN world

\* C15: single_rejection returns query(value) only for a value on which
\* condition holds, the value of an execution of the model on a new empty
\* trace at tick -1: whenever a call has returned, the latest value satisfies
\* condition and the result is its projection.
C15_ReturnsConditioned ==
    /\ pc = "single_rejection" => value \in Attempts
    /\ (pc \in {"rejection", "returned"} /\ samples # <<>>) =>
          /\ value \in Attempts
          /\ condition(test, value)
          /\ samples[Len(samples)] = query(test, value)

\* A call has returned where the model can return a value failing condition
C15_Witness ==
    /\ pc = "rejection"
    /\ samples # <<>>
    /\ \E v \in Attempts : ~condition(test, v)
    /\ condition(test, value)

\* C20: rejection returns exactly num_samples results, after
\* floor(num_samples / BatchSize) batches of BatchSize single_rejection
\* calls and, where num_samples mod BatchSize is not 0, one batch of that
\* many calls; every call gives one result.
C20_ExactlyNumSamples ==
    /\ Len(samples) = i * BatchSize + j
    /\ i <= num_samples \div BatchSize
    /\ Len(samples) <= num_samples
    /\ pc = "returned" =>
          /\ Len(samples) = num_samples
          /\ i = num_samples \div BatchSize
          /\ j = num_samples % BatchSize

\* rejection has returned after two batches and a remainder
C20_Witness ==
    /\ pc = "returned"
    /\ i >= 2
    /\ j >= 1
    /\ Len(samples) = num_samples

\* C17 (as claimed): the world an accepted proposal makes the retained one
\* holds exactly the names the model execution that produced it has bound
\* through Choice.sample and Choice.set.
C17_NoStaleDraws ==
    \A m \in Outcomes :
        (m.exc = "none" /\ \E u \in {"min", "max"} : Verdict(m, u) = "accept") =>
            DOMAIN Deref(m, m.ret[1]) = m.log.touched

\* C18 (as claimed): the copy of a World holds, under every name, a Draw
\* with the value, choice, tickTouched, tickCreated and fixed flag of the
\* original.  Checked of the copy of every retained world.
C18_CopyPreservesFields ==
    Initialized =>
        LET m1 == WorldCopy(Retained, Retained.ret)
        IN  Deref(m1, m1.ret) = world

\* C19 (as claimed): the acceptance ratio never divides by zero: whenever
\* propose returns, the cleaned new world has a non-fixed Draw and fw is not
\* 0; propose does not end with ZeroDivisionError; and the score of the
\* retained world is above 0 in every state after initialize.
C19_NoDivisionByZero ==
    /\ \A m \in Outcomes :
          /\ m.exc # "ZeroDivisionError"
          /\ m.exc = "none" =>
                /\ NonFixed(m.log.cleaned) # {}
                /\ ~IsZero(m.ret[4])
    /\ Initialized => ~IsZero(ProductOver(DOMAIN world, world))
    /\ raised # "ZeroDivisionError"
====
